---------------------------- MODULE Spec2Model ----------------------------
(***************************************************************************)
(* A model of the Bedrock guardrail tooling:                               *)
(*   - deploy_guardrail.py: main, GuardrailDeployer.deploy_guardrail and   *)
(*     its activation poll loop                          (specification    *)
(*     Spec);                                                              *)
(*   - create_guardrail.py: _validate_guardrail_config as a pure function  *)
(*     over policy documents                   (specification SpecValidate)*)
(*   - create_guardrail.py: create_banking_guardrail                       *)
(*                                              (specification SpecCreate) *)
(*   - create_guardrail_version.py: create_guardrail_version_from_config   *)
(*                                             (specification SpecVersion) *)
(*   - create_guardrail.py: check_grounding     (specification SpecGround) *)
(*   - create_guardrail.py: _encrypt_sensitive_data and _decrypt_data      *)
(*                                            (specification SpecEnvelope) *)
(*   - create_guardrail.py: two runs of create_banking_guardrail sharing   *)
(*     a clock and a working directory        (specification SpecParallel) *)
(* Python values are modelled by strings: "True", "False", "None"; a local *)
(* that has not been assigned yet is "unset".                              *)
(***************************************************************************)
EXTENDS Naturals, Sequences, FiniteSets

VARIABLES
    \* ---- deploy_guardrail.py ------------------------------------------
    pc,               \* position of main / deploy_guardrail
    version_arg,      \* args.version ("None" when --version is not given)
    guardrail_info,   \* response of get_guardrail at line 79
    version_id,       \* deploy_guardrail's local version_id
    attempt,          \* the poll loop's counter: status queries issued so far
    observed,         \* statuses returned to the poll loop, in order
    requests,         \* requests sent to the remote policy service, in order
    result,           \* value returned by deploy_guardrail
    exit,             \* which return statement ended the run
    cancelRequested,  \* the caller has raised its cancellation signal / deadline
    \* ---- create_guardrail.py: _validate_guardrail_config --------------
    config,           \* the document handed to the validator
    validation,       \* the (is_valid, error_message) tuple it returned
    vpc,              \* "input" before the call, "validated" after it
    \* ---- create_guardrail.py: create_banking_guardrail ----------------
    cpc,              \* position of create_banking_guardrail
    guardrail_name,   \* the guardrail_name argument, then the name in use
    kms_key_id,       \* os.getenv('KMS_KEY_ID')
    key_info,         \* outcome of kms.describe_key
    is_valid,         \* outcome of the validation at line 732
    calls,            \* network calls made by the run, in order
    record,           \* guardrail_details.json
    created,          \* the remote service's response to create_guardrail
    cresult,          \* value returned by create_banking_guardrail
    cexit,            \* which return statement ended the run
    \* ---- create_guardrail_version.py: create_guardrail_version_from_config
    xpc,              \* position of create_guardrail_version_from_config
    remote,           \* the remote guardrail's configuration
    modified,         \* another party changed it after the read at line 142
    xname,            \* guardrail_name (line 123)
    xversion,         \* version_id (line 135)
    current_config,   \* the configuration read at line 142
    update_params,    \* the update request built at lines 148-164
    xrequests,        \* requests sent to the remote policy service, in order
    xerror,           \* the exception a remote call raised, "none" if none
    xresult,          \* value returned by create_guardrail_version_from_config
    xafter,           \* the response to the status query at line 169
    \* ---- create_guardrail.py: check_grounding
    gpc,              \* position of check_grounding
    response,         \* its response argument
    context,          \* its context argument
    results,          \* its results dictionary
    \* ---- create_guardrail.py: _encrypt_sensitive_data, _decrypt_data
    epc,              \* position of the seal / open round
    payload,          \* the data given to _encrypt_sensitive_data
    seal_context,     \* self.encryption_context when sealing
    open_context,     \* self.encryption_context when opening
    envelope,         \* value returned by _encrypt_sensitive_data
    opened,           \* value returned by _decrypt_data
    raised,           \* the exception that left the failing method
    \* ---- create_guardrail.py: runs of create_banking_guardrail side by side
    now,              \* the wall clock datetime.now() reads, in half seconds
    run,              \* every run's locals: position, name, document, outcome
    details           \* guardrail_details.json in the shared working directory

deployVars   == <<pc, version_arg, guardrail_info, version_id, attempt, observed,
                  requests, result, exit, cancelRequested>>
validateVars == <<config, validation, vpc>>
createVars   == <<cpc, guardrail_name, kms_key_id, key_info, is_valid, calls,
                  record, created, cresult, cexit>>
versionVars  == <<xpc, remote, modified, xname, xversion, current_config,
                  update_params, xrequests, xerror, xresult, xafter>>
groundVars   == <<gpc, response, context, results>>
envelopeVars == <<epc, payload, seal_context, open_context, envelope, opened, raised>>
parallelVars == <<now, run, details>>
vars         == <<deployVars, validateVars, createVars, versionVars, groundVars,
                  envelopeVars, parallelVars>>

Last(s) == s[Len(s)]

(***************************************************************************)
(*                        deploy_guardrail.py                              *)
(***************************************************************************)

\* max_attempts = 10 (line 145): the poll loop's bound, fixed in the code.
max_attempts == 10

\* Largest number of versions a get_guardrail response lists in the model.
MaxVersions == 2

\* Status values the remote service may report.  "MISSING" is a response
\* without a 'status' key (status_info.get('status') is None).
NonTerminalStatuses == {"CREATING", "MISSING"}
RemoteStatuses == {"ACTIVE", "READY", "FAILED", "ERROR"} \cup NonTerminalStatuses

VersionIds == {"1", "2"}
CreatedAts == 1..MaxVersions

\* The 'versions' lists a get_guardrail response may carry.
VersionEntries == [version : VersionIds, createdAt : CreatedAts]
VersionLists ==
    {vs \in UNION {[1..n -> VersionEntries] : n \in 0..MaxVersions} :
        \A i, j \in DOMAIN vs : i # j => vs[i].version # vs[j].version}

\* get_guardrail responses: whether 'name' is present, and the versions.
GuardrailInfos == [hasName : BOOLEAN, versions : VersionLists]
NoInfo == [hasName |-> FALSE, versions |-> <<>>]

\* A request sent to the remote policy service.
Request(op, token) == [op |-> op, token |-> token]

\* versions_sorted[0].get('version') (lines 92-93): sorted() by createdAt with
\* reverse=True is stable, so among equal creation times the first stays first.
LatestVersion_First(versions) == versions[1].version

LatestVersion(versions) ==
    LET best == CHOOSE i \in DOMAIN versions :
                  /\ \A j \in DOMAIN versions : versions[j].createdAt <= versions[i].createdAt
                  /\ \A j \in DOMAIN versions :
                        versions[j].createdAt = versions[i].createdAt => i <= j
    IN  versions[best].version

\* The branch the poll loop takes on a status (lines 150-161).
PollOutcome_ReadyPending(status) ==
    IF status = "ACTIVE" THEN "True"
    ELSE IF status \in {"FAILED", "ERROR"} THEN "False"
    ELSE "continue"

PollOutcome_ErrorPending(status) ==
    IF status = "ACTIVE" THEN "True"
    ELSE IF status = "FAILED" THEN "False"
    ELSE IF status = "READY" THEN "True"
    ELSE "continue"

PollOutcome(status) ==
    IF status = "ACTIVE" THEN "True"
    ELSE IF status \in {"FAILED", "ERROR"} THEN "False"
    ELSE IF status = "READY" THEN "True"
    ELSE "continue"

\* return False at line 157 (FAILED / ERROR observed) and at line 167 (the
\* loop ran out of attempts).
ReturnOnFailedStatus == "False"
ReturnOnTimeout == "False"

\* The handler at lines 169-174: any exception ends deploy_guardrail with False.
DeployException_ReportsSuccess ==
    /\ pc' = "done"
    /\ result' = "True"
    /\ exit' = "exception"

DeployException ==
    /\ pc' = "done"
    /\ result' = "False"
    /\ exit' = "exception"

\* Lines 96-139: building guardrail_config reads guardrail_info['name'], a
\* KeyError when the response carries no name.
BuildConfigThen(info, next) ==
    IF info.hasName
    THEN /\ pc' = next
         /\ UNCHANGED <<result, exit>>
    ELSE DeployException

InitDeploy ==
    /\ pc = "main"
    /\ version_arg \in {"None"} \cup VersionIds
    /\ guardrail_info = NoInfo
    /\ version_id = "unset"
    /\ attempt = 0
    /\ observed = <<>>
    /\ requests = <<>>
    /\ result = "unset"
    /\ exit = "running"
    /\ cancelRequested = FALSE

IdleDeploy ==
    /\ pc = "idle"
    /\ version_arg = "None"
    /\ guardrail_info = NoInfo
    /\ version_id = "unset"
    /\ attempt = 0
    /\ observed = <<>>
    /\ requests = <<>>
    /\ result = "unset"
    /\ exit = "running"
    /\ cancelRequested = FALSE

\* main, lines 192-204: the first status query (get_guardrail_status with
\* detailed=False returns the status, 'UNKNOWN' when absent, None on error).
MainGetStatus_DeploysWhenActive ==
    /\ pc = "main"
    /\ requests' = Append(requests, Request("get_guardrail", "none"))
    /\ \/ /\ pc' = "done"
          /\ exit' = "not_found"
       \/ /\ pc' = "deploy_get"
          /\ exit' = "already_active"
       \/ /\ pc' = "deploy_get"
          /\ UNCHANGED exit
    /\ UNCHANGED <<version_arg, guardrail_info, version_id, attempt, observed,
                   result, cancelRequested>>
    /\ UNCHANGED <<validateVars, createVars, versionVars, groundVars, envelopeVars,
                   parallelVars>>

MainGetStatus ==
    /\ pc = "main"
    /\ requests' = Append(requests, Request("get_guardrail", "none"))
    /\ \/ /\ pc' = "done"                       \* the query raised: status None
          /\ exit' = "not_found"
       \/ /\ pc' = "done"                       \* status == 'ACTIVE'
          /\ exit' = "already_active"
       \/ /\ pc' = "deploy_get"                 \* any other status, 'UNKNOWN' too
          /\ UNCHANGED exit
    /\ UNCHANGED <<version_arg, guardrail_info, version_id, attempt, observed,
                   result, cancelRequested>>
    /\ UNCHANGED <<validateVars, createVars, versionVars, groundVars, envelopeVars,
                   parallelVars>>

\* deploy_guardrail, lines 79-94: get the guardrail, pick the version.
DeployGetGuardrail ==
    /\ pc = "deploy_get"
    /\ requests' = Append(requests, Request("get_guardrail", "none"))
    /\ \/ /\ DeployException                    \* get_guardrail raised
          /\ UNCHANGED <<guardrail_info, version_id>>
       \/ \E info \in GuardrailInfos :
            /\ guardrail_info' = info
            /\ IF version_arg # "None"
               THEN /\ version_id' = version_arg
                    /\ BuildConfigThen(info, "update")
               ELSE IF info.versions = <<>>
               THEN /\ version_id' = "None"
                    /\ pc' = "create_version"
                    /\ UNCHANGED <<result, exit>>
               ELSE /\ version_id' = LatestVersion(info.versions)
                    /\ BuildConfigThen(info, "update")
    /\ UNCHANGED <<version_arg, attempt, observed, cancelRequested>>
    /\ UNCHANGED <<validateVars, createVars, versionVars, groundVars, envelopeVars,
                   parallelVars>>

\* create_guardrail_version, lines 55-73, called from line 87: the request
\* carries guardrailIdentifier and description only.
DeployCreateVersion ==
    /\ pc = "create_version"
    /\ requests' = Append(requests, Request("create_guardrail_version", "none"))
    /\ \/ /\ pc' = "done"                       \* raised, or no 'version': None
          /\ result' = "False"
          /\ exit' = "version_failed"
          /\ UNCHANGED version_id
       \/ \E v \in VersionIds :
            /\ version_id' = v
            /\ BuildConfigThen(guardrail_info, "update")
    /\ UNCHANGED <<version_arg, guardrail_info, attempt, observed, cancelRequested>>
    /\ UNCHANGED <<validateVars, createVars, versionVars, groundVars, envelopeVars,
                   parallelVars>>

\* Line 142: update_guardrail(**guardrail_config).
DeployUpdate ==
    /\ pc = "update"
    /\ requests' = Append(requests, Request("update_guardrail", "none"))
    /\ \/ DeployException                       \* update_guardrail raised
       \/ /\ pc' = "poll"
          /\ UNCHANGED <<result, exit>>
    /\ UNCHANGED <<version_arg, guardrail_info, version_id, attempt, observed,
                   cancelRequested>>
    /\ UNCHANGED <<validateVars, createVars, versionVars, groundVars, envelopeVars,
                   parallelVars>>

\* One iteration of the loop at lines 146-164, and lines 166-167 when it was
\* the last one.
Poll ==
    /\ pc = "poll"
    /\ attempt < max_attempts
    /\ requests' = Append(requests, Request("get_guardrail", "none"))
    /\ attempt' = attempt + 1
    /\ \/ /\ DeployException       \* status_info is None: .get raises
          /\ UNCHANGED observed
       \/ \E status \in RemoteStatuses :
            /\ observed' = Append(observed, status)
            /\ IF PollOutcome(status) = "True"
               THEN /\ pc' = "done"
                    /\ result' = "True"
                    /\ exit' = "success"
               ELSE IF PollOutcome(status) = "False"
               THEN /\ pc' = "done"
                    /\ result' = ReturnOnFailedStatus
                    /\ exit' = "failed"
               ELSE IF attempt + 1 < max_attempts
               THEN UNCHANGED <<pc, result, exit>>
               ELSE /\ pc' = "done"
                    /\ result' = ReturnOnTimeout
                    /\ exit' = "timeout"
    /\ UNCHANGED <<version_arg, guardrail_info, version_id, cancelRequested>>
    /\ UNCHANGED <<validateVars, createVars, versionVars, groundVars, envelopeVars,
                   parallelVars>>

\* main, lines 215-216: KeyboardInterrupt is no Exception, so it passes the
\* handler of deploy_guardrail and ends main.
Interrupt ==
    /\ pc \notin {"done", "idle"}
    /\ pc' = "done"
    /\ exit' = "interrupted"
    /\ UNCHANGED <<version_arg, guardrail_info, version_id, attempt, observed,
                   requests, result, cancelRequested>>
    /\ UNCHANGED <<validateVars, createVars, versionVars, groundVars, envelopeVars,
                   parallelVars>>

\* The caller of deploy_guardrail(guardrail_id, version_id=None) raises its
\* cancellation signal (or its deadline passes); line 75 takes no such input.
CallerCancels ==
    /\ pc \notin {"done", "idle"}
    /\ ~cancelRequested
    /\ cancelRequested' = TRUE
    /\ UNCHANGED <<pc, version_arg, guardrail_info, version_id, attempt, observed,
                   requests, result, exit>>
    /\ UNCHANGED <<validateVars, createVars, versionVars, groundVars, envelopeVars,
                   parallelVars>>

NextDeploy ==
    \/ MainGetStatus
    \/ DeployGetGuardrail
    \/ DeployCreateVersion
    \/ DeployUpdate
    \/ Poll
    \/ Interrupt
    \/ CallerCancels


(***************************************************************************)
(*          create_guardrail.py: _validate_guardrail_config                *)
(***************************************************************************)

\* required_fields, lines 559-563, in the order the code lists them.
required_fields ==
    <<"name", "description", "blockedInputMessaging", "blockedOutputsMessaging",
      "contentPolicyConfig", "wordPolicyConfig", "topicPolicyConfig">>

StringFields == {"name", "description", "blockedInputMessaging", "blockedOutputsMessaging"}
GroupFields == {"contentPolicyConfig", "wordPolicyConfig", "topicPolicyConfig"}

\* What a document holds under a key: nothing, a string, a mapping, a list.
FieldKinds(f) == IF f \in GroupFields THEN {"absent", "dict", "list"} ELSE {"absent", "str"}

\* The PROMPT_ATTACK rule of the content group, when there is one.
Strengths == {"NONE", "LOW", "HIGH"}
PromptAttackRules == [present : {TRUE}, outputEnabled : BOOLEAN, outputStrength : Strengths]
NoPromptAttack == [present |-> FALSE, outputEnabled |-> TRUE, outputStrength |-> "NONE"]

\* The documents given to the validator: every combination of present and
\* absent fields, of mapping and non-mapping groups, and of PROMPT_ATTACK
\* settings inside a content group that is a mapping.
Configs ==
    {c \in [kind : {k \in [StringFields \cup GroupFields -> {"absent", "str", "dict", "list"}] :
                       \A f \in DOMAIN k : k[f] \in FieldKinds(f)},
            promptAttack : PromptAttackRules \cup {NoPromptAttack}] :
        c.kind["contentPolicyConfig"] # "dict" => c.promptAttack = NoPromptAttack}

NoConfig ==
    [kind |-> [f \in StringFields \cup GroupFields |-> "absent"],
     promptAttack |-> NoPromptAttack]

\* The tuple (is_valid, error_message); the fields named by a "Missing
\* required fields: ..." message are kept as a sequence.
ValidationResult(ok, msg, fields) == [is_valid |-> ok, error |-> msg, missing |-> fields]
NoValidation == ValidationResult(FALSE, "unset", <<>>)

IsMissing(cfg, f) == cfg.kind[f] = "absent"

\* _validate_guardrail_config, lines 559-587.
Validate_FirstMissingOnly(cfg) ==
    LET Absent(f) == IsMissing(cfg, f)
        missing_fields == SelectSeq(required_fields, Absent)
    IN  IF missing_fields # <<>>
        THEN ValidationResult(FALSE, "Missing required fields", <<Head(missing_fields)>>)
        ELSE IF cfg.kind["contentPolicyConfig"] # "dict"
        THEN ValidationResult(FALSE, "contentPolicyConfig must be a dictionary", <<>>)
        ELSE IF cfg.kind["wordPolicyConfig"] # "dict"
        THEN ValidationResult(FALSE, "wordPolicyConfig must be a dictionary", <<>>)
        ELSE IF cfg.kind["topicPolicyConfig"] # "dict"
        THEN ValidationResult(FALSE, "topicPolicyConfig must be a dictionary", <<>>)
        ELSE ValidationResult(TRUE, "", <<>>)

Validate(cfg) ==
    LET Absent(f) == IsMissing(cfg, f)
        missing_fields == SelectSeq(required_fields, Absent)
    IN  IF missing_fields # <<>>
        THEN ValidationResult(FALSE, "Missing required fields", missing_fields)
        ELSE IF cfg.kind["contentPolicyConfig"] # "dict"
        THEN ValidationResult(FALSE, "contentPolicyConfig must be a dictionary", <<>>)
        ELSE IF cfg.kind["wordPolicyConfig"] # "dict"
        THEN ValidationResult(FALSE, "wordPolicyConfig must be a dictionary", <<>>)
        ELSE IF cfg.kind["topicPolicyConfig"] # "dict"
        THEN ValidationResult(FALSE, "topicPolicyConfig must be a dictionary", <<>>)
        ELSE ValidationResult(TRUE, "", <<>>)

InitValidate ==
    /\ config \in Configs
    /\ validation = NoValidation
    /\ vpc = "input"

IdleValidate ==
    /\ config = NoConfig
    /\ validation = NoValidation
    /\ vpc = "idle"

\* One call of _validate_guardrail_config(config).
ValidateConfig ==
    /\ vpc = "input"
    /\ validation' = Validate(config)
    /\ vpc' = "validated"
    /\ UNCHANGED config
    /\ UNCHANGED <<deployVars, createVars, versionVars, groundVars, envelopeVars,
                   parallelVars>>

NextValidate == ValidateConfig

(***************************************************************************)
(*            create_guardrail.py: create_banking_guardrail                *)
(***************************************************************************)

\* guardrail_config as lines 660-676 build it: every required field, each
\* group the mapping its getter returns, and the PROMPT_ATTACK filter of
\* lines 483-491 (outputEnabled False, outputStrength 'NONE').
CompiledConfig ==
    [kind |-> [f \in StringFields \cup GroupFields |->
                  IF f \in GroupFields THEN "dict" ELSE "str"],
     promptAttack |-> [present |-> TRUE, outputEnabled |-> FALSE, outputStrength |-> "NONE"]]

\* os.getenv('KMS_KEY_ID'): not set, set to the empty string, or a key.
KeyEnvValues == {"None", "", "arn:key"}

\* KeyMetadata.KeyState values of the key service.
KeyStates == {"Enabled", "Disabled", "PendingDeletion", "PendingImport"}

GuardrailIds == {"gr-1", "gr-2"}
GuardrailArns == {"None", "arn:guardrail"}

\* Line 711: the key must be in the Enabled state.
KeyUsable_AnyState(state) == TRUE

KeyUsable(state) == state = "Enabled"

\* datetime.now().strftime("%Y%m%d%H%M%S") (line 645): the clock reading cut
\* to whole seconds; the clock of the model counts half seconds.
strftime(t) == t \div 2

\* A guardrail name: its text, and the timestamp appended to it, if any.
GivenName(text) == [base |-> text, timestamp |-> <<>>]

\* Lines 644-646: without a guardrail_name, the name is
\* f"{self.base_guardrail_name}-{timestamp}".
NameInUse(name, t) ==
    IF name = "None"
    THEN [base |-> "BankingVoiceBotGuardrail", timestamp |-> <<strftime(t)>>]
    ELSE GivenName(name)

\* A network call: the service and the operation.
Call(service, op) == [service |-> service, op |-> op]

\* guardrail_details.json.
NoRecord == [state |-> "absent", guardrail_id |-> "None", name |-> GivenName("None"), arn |-> "None"]
TruncatedRecord == [state |-> "truncated", guardrail_id |-> "None", name |-> GivenName("None"), arn |-> "None"]
WrittenRecord(id, name, arn) == [state |-> "written", guardrail_id |-> id, name |-> name, arn |-> arn]

NoResponse == [guardrailId |-> "None", guardrailArn |-> "None"]

\* The handler at lines 782-784: _handle_error, return None.
CreateHandled(why) ==
    /\ cpc' = "done"
    /\ cresult' = "None"
    /\ cexit' = why

InitCreate ==
    /\ cpc = "start"
    /\ guardrail_name \in {"None", "MyGuardrail"}
    /\ kms_key_id \in KeyEnvValues
    /\ key_info = "unset"
    /\ is_valid = "unset"
    /\ calls = <<>>
    /\ record \in {NoRecord, WrittenRecord("gr-0", GivenName("earlier"), "None")}
    /\ created = NoResponse
    /\ cresult = "unset"
    /\ cexit = "running"

IdleCreate ==
    /\ cpc = "idle"
    /\ guardrail_name = "None"
    /\ kms_key_id = "None"
    /\ key_info = "unset"
    /\ is_valid = "unset"
    /\ calls = <<>>
    /\ record = NoRecord
    /\ created = NoResponse
    /\ cresult = "unset"
    /\ cexit = "running"

\* Lines 644-697: name, policy groups, guardrail_config, and the key
\* reference read from the environment.
CreateStart ==
    /\ cpc = "start"
    /\ guardrail_name' = NameInUse(guardrail_name, now)
    /\ IF kms_key_id \in {"None", ""}
       THEN CreateHandled("key_missing")
       ELSE /\ cpc' = "describe"
            /\ UNCHANGED <<cresult, cexit>>
    /\ UNCHANGED <<kms_key_id, key_info, is_valid, calls, record, created>>
    /\ UNCHANGED <<deployVars, validateVars, versionVars, groundVars, envelopeVars,
                   parallelVars>>

\* Lines 699-729: kms.describe_key and the state check.
CreateDescribeKey ==
    /\ cpc = "describe"
    /\ calls' = Append(calls, Call("kms", "describe_key"))
    /\ \/ /\ key_info' = "raised"
          /\ CreateHandled("key_unavailable")
       \/ \E state \in KeyStates :
            /\ key_info' = state
            /\ IF KeyUsable(state)
               THEN /\ cpc' = "validate"
                    /\ UNCHANGED <<cresult, cexit>>
               ELSE CreateHandled("key_unavailable")
    /\ UNCHANGED <<guardrail_name, kms_key_id, is_valid, record, created>>
    /\ UNCHANGED <<deployVars, validateVars, versionVars, groundVars, envelopeVars,
                   parallelVars>>

\* Lines 731-734: the validation of guardrail_config.
CreateValidate ==
    /\ cpc = "validate"
    /\ LET v == Validate(CompiledConfig)
       IN  IF v.is_valid
           THEN /\ is_valid' = "True"
                /\ cpc' = "create"
                /\ UNCHANGED <<cresult, cexit>>
           ELSE /\ is_valid' = "False"
                /\ CreateHandled("invalid")
    /\ UNCHANGED <<guardrail_name, kms_key_id, key_info, calls, record, created>>
    /\ UNCHANGED <<deployVars, validateVars, versionVars, groundVars, envelopeVars,
                   parallelVars>>

\* Lines 742-746 and 763-780: client.create_guardrail(**guardrail_config).
CreateGuardrail ==
    /\ cpc = "create"
    /\ calls' = Append(calls, Call("bedrock", "create_guardrail"))
    /\ \/ /\ cpc' = "done"                      \* create_guardrail raised
          /\ cresult' = "None"
          /\ cexit' = "create_failed"
          /\ UNCHANGED created
       \/ /\ cpc' = "done"                      \* no 'guardrailId' in the response
          /\ cresult' = "None"
          /\ cexit' = "no_id"
          /\ UNCHANGED created
       \/ \E id \in GuardrailIds, arn \in GuardrailArns :
            /\ created' = [guardrailId |-> id, guardrailArn |-> arn]
            /\ cpc' = "write"
            /\ UNCHANGED <<cresult, cexit>>
    /\ UNCHANGED <<guardrail_name, kms_key_id, key_info, is_valid, record>>
    /\ UNCHANGED <<deployVars, validateVars, versionVars, groundVars, envelopeVars,
                   parallelVars>>

\* Lines 752-762: guardrail_details.json is written, then the id returned; an
\* error of open or json.dump is caught at line 768.
CreateWriteRecord ==
    /\ cpc = "write"
    /\ \/ /\ record' = WrittenRecord(created.guardrailId, guardrail_name, created.guardrailArn)
          /\ cpc' = "done"
          /\ cresult' = created.guardrailId
          /\ cexit' = "created"
       \/ /\ record' \in {record, TruncatedRecord}  \* open failed, or the dump did
          /\ cpc' = "done"
          /\ cresult' = "None"
          /\ cexit' = "create_failed"
    /\ UNCHANGED <<guardrail_name, kms_key_id, key_info, is_valid, calls, created>>
    /\ UNCHANGED <<deployVars, validateVars, versionVars, groundVars, envelopeVars,
                   parallelVars>>

NextCreate ==
    \/ CreateStart
    \/ CreateDescribeKey
    \/ CreateValidate
    \/ CreateGuardrail
    \/ CreateWriteRecord

(***************************************************************************)
(*     create_guardrail_version.py: create_guardrail_version_from_config   *)
(***************************************************************************)

\* The fields of a guardrail's configuration that a get_guardrail response
\* may carry besides its name, status and version.
MessagingFields == {"blockedInputMessaging", "blockedOutputsMessaging"}
PolicyFields ==
    {"description", "kmsKeyId", "contentPolicyConfig", "wordPolicyConfig",
     "topicPolicyConfig", "sensitiveInformationPolicyConfig",
     "contextualGroundingPolicyConfig"}
ConfigFields == MessagingFields \cup PolicyFields

\* optional_fields, lines 157-160.
optional_fields ==
    <<"description", "kmsKeyId", "contentPolicyConfig",
      "sensitiveInformationPolicyConfig", "wordPolicyConfig">>

\* A field's value is "absent" (not there), "original" (the value the
\* resource was created with), "changed" (a value written later by another
\* party) or "default" (the default the code fills in).
RemoteConfigs == [ConfigFields -> {"absent", "original"}]
NoFields == [f \in ConfigFields |-> "absent"]

\* The exceptions the policy service raises.
GetErrors == {"ResourceNotFoundException", "ClientError"}
MutationErrors == {"ConflictException", "ValidationException", "ClientError"}

\* Statuses a get_guardrail response may carry after the update.
AfterUpdateStatuses == {"ACTIVE", "UPDATING", "FAILED", "MISSING"}

\* The returned dictionary (lines 188-192), or None (line 206).
VersionResult(version, status) == [returned |-> "dict", version_id |-> version, status |-> status]
ReturnedNone == [returned |-> "None", version_id |-> "None", status |-> "None"]
NotReturned == [returned |-> "unset", version_id |-> "None", status |-> "None"]

\* No status query has been answered.
NoStatus == [status |-> "None", version |-> "None"]

\* Lines 148-164: the update request.  The messaging strings come from
\* current_config or a default; a field of optional_fields is copied when
\* current_config has it; no other field is sent.
UpdateParams(cfg) ==
    [f \in ConfigFields |->
        IF f \in MessagingFields
        THEN IF cfg[f] = "absent" THEN "default" ELSE cfg[f]
        ELSE IF \E i \in DOMAIN optional_fields : optional_fields[i] = f
             THEN cfg[f]
             ELSE "absent"]

\* The status put in the result after the update (lines 170-176).
StatusAfterUpdate(status, version, wanted) ==
    IF status = "ACTIVE" /\ version = wanted THEN "ACTIVE"
    ELSE IF status = "MISSING" THEN "UNKNOWN"
    ELSE status

\* Lines 178-186: an exception of the activation steps is printed, and the
\* created version is returned with status DRAFT.
ActivationFailed(err) ==
    /\ xerror' = err
    /\ xpc' = "done"
    /\ xresult' = VersionResult(xversion, "DRAFT")

\* Lines 194-206: an exception of the first get or of the version creation
\* is printed, and None is returned.
VersionFailed(err) ==
    /\ xerror' = err
    /\ xpc' = "done"
    /\ xresult' = ReturnedNone

InitVersion ==
    /\ xpc = "get"
    /\ remote \in RemoteConfigs
    /\ modified = FALSE
    /\ xname = "unset"
    /\ xversion = "unset"
    /\ current_config = NoFields
    /\ update_params = NoFields
    /\ xrequests = <<>>
    /\ xerror = "none"
    /\ xresult = NotReturned
    /\ xafter = NoStatus

IdleVersion ==
    /\ xpc = "idle"
    /\ remote = NoFields
    /\ modified = FALSE
    /\ xname = "unset"
    /\ xversion = "unset"
    /\ current_config = NoFields
    /\ update_params = NoFields
    /\ xrequests = <<>>
    /\ xerror = "none"
    /\ xresult = NotReturned
    /\ xafter = NoStatus

\* Lines 121-124: get the guardrail; its name, or its id when it has none.
VersionGet ==
    /\ xpc = "get"
    /\ xrequests' = Append(xrequests, Request("get_guardrail", "none"))
    /\ \/ /\ \E err \in GetErrors : VersionFailed(err)
          /\ UNCHANGED xname
       \/ /\ xname' \in {"name", "guardrail_id"}
          /\ xpc' = "create_version"
          /\ UNCHANGED <<xerror, xresult>>
    /\ UNCHANGED <<remote, modified, xversion, current_config, update_params, xafter>>
    /\ UNCHANGED <<deployVars, validateVars, createVars, groundVars, envelopeVars,
                   parallelVars>>

\* Lines 126-136: create_guardrail_version with a uuid4 clientRequestToken.
VersionCreate ==
    /\ xpc = "create_version"
    /\ xrequests' = Append(xrequests, Request("create_guardrail_version", "uuid4"))
    /\ \/ /\ \E err \in MutationErrors \cup {"KeyError"} : VersionFailed(err)
          /\ UNCHANGED xversion
       \/ /\ xversion' \in VersionIds
          /\ xpc' = "get_current"
          /\ UNCHANGED <<xerror, xresult>>
    /\ UNCHANGED <<remote, modified, xname, current_config, update_params, xafter>>
    /\ UNCHANGED <<deployVars, validateVars, createVars, groundVars, envelopeVars,
                   parallelVars>>

\* Line 142: the current configuration is read.
VersionGetCurrent ==
    /\ xpc = "get_current"
    /\ xrequests' = Append(xrequests, Request("get_guardrail", "none"))
    /\ \/ /\ \E err \in GetErrors : ActivationFailed(err)
          /\ UNCHANGED current_config
       \/ /\ current_config' = remote
          /\ xpc' = "update"
          /\ UNCHANGED <<xerror, xresult>>
    /\ UNCHANGED <<remote, modified, xname, xversion, update_params, xafter>>
    /\ UNCHANGED <<deployVars, validateVars, createVars, groundVars, envelopeVars,
                   parallelVars>>

\* Another party writes a field of the remote guardrail between the read at
\* line 142 and the write at line 167.
ExternalModify ==
    /\ xpc = "update"
    /\ ~modified
    /\ \E f \in ConfigFields : remote' = [remote EXCEPT ![f] = "changed"]
    /\ modified' = TRUE
    /\ UNCHANGED <<xpc, xname, xversion, current_config, update_params, xrequests,
                   xerror, xresult, xafter>>
    /\ UNCHANGED <<deployVars, validateVars, createVars, groundVars, envelopeVars,
                   parallelVars>>

\* Lines 146-167: update_params is built and update_guardrail called.
VersionUpdate ==
    /\ xpc = "update"
    /\ update_params' = UpdateParams(current_config)
    /\ xrequests' = Append(xrequests, Request("update_guardrail", "none"))
    /\ \/ \E err \in MutationErrors : ActivationFailed(err)
       \/ /\ xpc' = "get_after"
          /\ UNCHANGED <<xerror, xresult>>
    /\ UNCHANGED <<remote, modified, xname, xversion, current_config, xafter>>
    /\ UNCHANGED <<deployVars, validateVars, createVars, groundVars, envelopeVars,
                   parallelVars>>

\* Lines 169-176 and 188-192: the status query after the update.
VersionGetAfter ==
    /\ xpc = "get_after"
    /\ xrequests' = Append(xrequests, Request("get_guardrail", "none"))
    /\ \/ /\ \E err \in GetErrors : ActivationFailed(err)
          /\ UNCHANGED xafter
       \/ \E status \in AfterUpdateStatuses, version \in VersionIds :
            /\ xafter' = [status |-> status, version |-> version]
            /\ xresult' = VersionResult(xversion, StatusAfterUpdate(status, version, xversion))
            /\ xpc' = "done"
            /\ UNCHANGED xerror
    /\ UNCHANGED <<remote, modified, xname, xversion, current_config, update_params>>
    /\ UNCHANGED <<deployVars, validateVars, createVars, groundVars, envelopeVars,
                   parallelVars>>

NextVersion ==
    \/ VersionGet
    \/ VersionCreate
    \/ VersionGetCurrent
    \/ ExternalModify
    \/ VersionUpdate
    \/ VersionGetAfter

(***************************************************************************)
(*   create_guardrail.py: ContextualGroundingCheck and check_grounding     *)
(***************************************************************************)

\* A text is a sequence of one-character strings.
Digits == {"0", "1", "2", "3", "4", "5", "6", "7", "8", "9"}
UpperCase == <<"A", "B", "C", "D", "E", "F", "G", "H", "I", "J", "K", "L", "M", "N", "O", "P", "Q", "R", "S", "T", "U", "V", "W", "X", "Y", "Z">>
LowerCase == <<"a", "b", "c", "d", "e", "f", "g", "h", "i", "j", "k", "l", "m", "n", "o", "p", "q", "r", "s", "t", "u", "v", "w", "x", "y", "z">>
UpperLetters == {UpperCase[i] : i \in DOMAIN UpperCase}
WordChars == Digits \cup UpperLetters \cup {LowerCase[i] : i \in DOMAIN LowerCase} \cup {"_"}

IsDigit(c) == c \in Digits                       \* \d
IsWordChar(c) == c \in WordChars                 \* \w
IsSpace(c) == c \in {" ", "\t", "\n", "\r"}      \* \s

\* The character at index i, or "" outside the text.
At(t, i) == IF i \in 1..Len(t) THEN t[i] ELSE ""

\* str.lower()
LowerChar(c) ==
    IF c \in UpperLetters
    THEN LowerCase[CHOOSE i \in DOMAIN UpperCase : UpperCase[i] = c]
    ELSE c
RECURSIVE Lower(_)
Lower(t) == IF t = <<>> THEN <<>> ELSE <<LowerChar(Head(t))>> \o Lower(Tail(t))

\* t[s:e] with e exclusive, empty when out of range.
Slice(t, s, e) == IF s >= 1 /\ e - 1 <= Len(t) /\ s <= e - 1 THEN SubSeq(t, s, e - 1) ELSE <<>>

\* `term in text`
Contains(text, term) ==
    \E i \in 1..Len(text) : At(text, i) = term[1] /\ Slice(text, i, i + Len(term)) = term

\* \b just before index i.
Boundary(t, i) == IsWordChar(At(t, i - 1)) # IsWordChar(At(t, i))

\* The length of the run of digits (of whitespace) that starts at index i.
RECURSIVE DigitRun(_, _)
DigitRun(t, i) == IF IsDigit(At(t, i)) THEN 1 + DigitRun(t, i + 1) ELSE 0
RECURSIVE SpaceRun(_, _)
SpaceRun(t, i) == IF IsSpace(At(t, i)) THEN 1 + SpaceRun(t, i + 1) ELSE 0

\* One match of \b\d+(?:\.\d+)?%?\b at index s: the index after the match,
\* 0 when the pattern does not match there.  The matcher prefers more
\* digits, then a fraction with more digits, then the percent sign, and
\* gives each up in turn until the final \b holds.
NumberParses(t, s) ==
    UNION {{c \in {d} \X (0..(IF At(t, s + d) = "." THEN DigitRun(t, s + d + 1) ELSE 0)) \X {0, 1} :
               LET e == s + c[1] + (IF c[2] > 0 THEN c[2] + 1 ELSE 0)
               IN  /\ c[3] = 1 => At(t, e) = "%"
                   /\ Boundary(t, e + c[3])} :
           d \in 1..DigitRun(t, s)}

Preferred(a, b) ==
    \/ a[1] > b[1]
    \/ a[1] = b[1] /\ a[2] > b[2]
    \/ a[1] = b[1] /\ a[2] = b[2] /\ a[3] >= b[3]

NumberEnd(t, s) ==
    IF ~Boundary(t, s) \/ ~IsDigit(At(t, s)) THEN 0
    ELSE LET parses == NumberParses(t, s)
             c == CHOOSE a \in parses : \A b \in parses : Preferred(a, b)
         IN  IF parses = {} THEN 0
             ELSE s + c[1] + (IF c[2] > 0 THEN c[2] + 1 ELSE 0) + c[3]

\* re.findall(r'\b\d+(?:\.\d+)?%?\b', t): leftmost matches, not overlapping.
RECURSIVE NumbersFrom(_, _)
NumbersFrom(t, s) ==
    IF s > Len(t) THEN {}
    ELSE LET e == NumberEnd(t, s)
         IN  IF e = 0 THEN NumbersFrom(t, s + 1)
             ELSE {Slice(t, s, e)} \cup NumbersFrom(t, e)

FindNumbers(t) == NumbersFrom(t, 1)

\* date_pattern, line 51.  The month names, lower-cased (re.IGNORECASE).
MonthForms == {<<"j", "a", "n">>,
               <<"j", "a", "n", "u", "a", "r", "y">>,
               <<"f", "e", "b">>,
               <<"f", "e", "b", "r", "u", "a", "r", "y">>,
               <<"m", "a", "r">>,
               <<"m", "a", "r", "c", "h">>,
               <<"a", "p", "r">>,
               <<"a", "p", "r", "i", "l">>,
               <<"m", "a", "y">>,
               <<"j", "u", "n">>,
               <<"j", "u", "n", "e">>,
               <<"j", "u", "l">>,
               <<"j", "u", "l", "y">>,
               <<"a", "u", "g">>,
               <<"a", "u", "g", "u", "s", "t">>,
               <<"s", "e", "p">>,
               <<"s", "e", "p", "t", "e", "m", "b", "e", "r">>,
               <<"o", "c", "t">>,
               <<"o", "c", "t", "o", "b", "e", "r">>,
               <<"n", "o", "v">>,
               <<"n", "o", "v", "e", "m", "b", "e", "r">>,
               <<"d", "e", "c">>,
               <<"d", "e", "c", "e", "m", "b", "e", "r">>}
DaySuffixes == {<<"s", "t">>, <<"n", "d">>, <<"r", "d">>, <<"t", "h">>}

\* The indices a part of the pattern can reach from the indices in P.
AfterMonth(t, s) ==
    {s + Len(m) : m \in {n \in MonthForms : Lower(Slice(t, s, s + Len(n))) = n}}
AfterSpaces(t, P) == UNION {{p + k : k \in 1..SpaceRun(t, p)} : p \in P}
AfterDigits(t, P, lo, hi) == UNION {{p + k : k \in {n \in lo..hi : n <= DigitRun(t, p)}} : p \in P}
AfterOptSuffix(t, P) == P \cup {p + 2 : p \in {q \in P : Lower(Slice(t, q, q + 2)) \in DaySuffixes}}
AfterOptComma(t, P) == P \cup {p + 1 : p \in {q \in P : At(t, q) = ","}}
AfterSeparator(t, P) == {p + 1 : p \in {q \in P : At(t, q) \in {"/", "-"}}}

\* Month d{1,2}(st|nd|rd|th)?,? dddd
NamedDateEnds(t, s) ==
    {e \in AfterDigits(t, AfterSpaces(t, AfterOptComma(t, AfterOptSuffix(t,
              AfterDigits(t, AfterSpaces(t, AfterMonth(t, s)), 1, 2)))), 4, 4) :
        Boundary(t, e)}

\* d{1,2}[/-]d{1,2}[/-]d{2,4}
NumericDateEnds(t, s) ==
    {e \in AfterDigits(t, AfterSeparator(t, AfterDigits(t, AfterSeparator(t,
              AfterDigits(t, {s}, 1, 2)), 1, 2)), 2, 4) :
        Boundary(t, e)}

DateEnd(t, s) ==
    IF ~Boundary(t, s) THEN 0
    ELSE LET named == IF IsWordChar(At(t, s)) /\ ~IsDigit(At(t, s)) THEN NamedDateEnds(t, s) ELSE {}
             numeric == IF IsDigit(At(t, s)) THEN NumericDateEnds(t, s) ELSE {}
         IN  IF named # {} THEN CHOOSE e \in named : \A f \in named : e >= f
             ELSE IF numeric # {} THEN CHOOSE e \in numeric : \A f \in numeric : e >= f
             ELSE 0

\* re.findall(date_pattern, t, re.IGNORECASE): the matched text as written.
RECURSIVE DatesFrom(_, _)
DatesFrom(t, s) ==
    IF s > Len(t) THEN {}
    ELSE LET e == DateEnd(t, s)
         IN  IF e = 0 THEN DatesFrom(t, s + 1)
             ELSE {Slice(t, s, e)} \cup DatesFrom(t, e)

FindDates(t) == DatesFrom(t, 1)

\* financial_terms, line 40.
financial_terms ==
    <<<<"i", "n", "t", "e", "r", "e", "s", "t", " ", "r", "a", "t", "e">>,
      <<"A", "P", "R">>,
      <<"A", "P", "Y">>,
      <<"f", "e", "e">>,
      <<"p", "e", "n", "a", "l", "t", "y">>,
      <<"b", "a", "l", "a", "n", "c", "e">>,
      <<"w", "i", "t", "h", "d", "r", "a", "w", "a", "l">>,
      <<"d", "e", "p", "o", "s", "i", "t">>>>

\* A reason returned by a check: its message and, for a financial term, the
\* term that is formatted into it.
Reason(message, term) == [message |-> message, term |-> term]

\* Line 36: the test on the two sets of numbers.
NumbersConsistent_Equal(numbers_in_response, numbers_in_context) ==
    numbers_in_response = numbers_in_context

NumbersConsistent(numbers_in_response, numbers_in_context) ==
    ~(numbers_in_response # {} /\ ~(numbers_in_response \subseteq numbers_in_context))

\* Lines 41-43: the terms for which the test of line 42 is true.
IntroducedTerms(resp, ctx) ==
    LET lower_response == Lower(resp)
        lower_context == Lower(ctx)
    IN  {i \in DOMAIN financial_terms :
            /\ Contains(lower_response, financial_terms[i])
            /\ ~Contains(lower_context, financial_terms[i])}

\* check_factual_consistency, lines 20-45: <<is_consistent, reason>>.
check_factual_consistency(resp, ctx) ==
    IF ~NumbersConsistent(FindNumbers(resp), FindNumbers(ctx))
    THEN <<FALSE, Reason("Response contains numbers not present in context", <<>>)>>
    ELSE LET introduced == IntroducedTerms(resp, ctx)
         IN  IF introduced # {}
             THEN <<FALSE, Reason("Response introduces financial term not in context",
                       financial_terms[CHOOSE i \in introduced : \A j \in introduced : i <= j])>>
             ELSE <<TRUE, Reason("", <<>>)>>

\* Line 56: the test on the two sets of dates.
DatesConsistent_SameDates(response_dates, context_dates) ==
    response_dates = context_dates

DatesConsistent_IgnoreCase(response_dates, context_dates) ==
    ~(response_dates # {}
        /\ ~({Lower(d) : d \in response_dates} \subseteq {Lower(d) : d \in context_dates}))

DatesConsistent(response_dates, context_dates) ==
    ~(response_dates # {} /\ ~(response_dates \subseteq context_dates))

\* check_temporal_consistency, lines 48-59.
check_temporal_consistency(resp, ctx) ==
    IF ~DatesConsistent(FindDates(resp), FindDates(ctx))
    THEN <<FALSE, Reason("Response introduces dates not present in context", <<>>)>>
    ELSE <<TRUE, Reason("", <<>>)>>

\* Lines 104-108.
InitialResults == [is_grounded |-> TRUE, checks |-> <<>>, warnings |-> <<>>]

\* Lines 112-124 and 128-140: what one check's outcome does to results.
RecordCheck_ReasonAlways(res, name, warning, outcome) ==
    IF ~outcome[1]
    THEN [is_grounded |-> FALSE,
          checks |-> Append(res.checks, [check |-> name, passed |-> FALSE, reason |-> outcome[2]]),
          warnings |-> Append(res.warnings, [prefix |-> warning, reason |-> outcome[2]])]
    ELSE [is_grounded |-> res.is_grounded,
          checks |-> Append(res.checks, [check |-> name, passed |-> TRUE, reason |-> outcome[2]]),
          warnings |-> res.warnings]

RecordCheck_LastCheckOnly(res, name, warning, outcome) ==
    IF ~outcome[1]
    THEN [is_grounded |-> FALSE,
          checks |-> Append(res.checks, [check |-> name, passed |-> FALSE, reason |-> outcome[2]]),
          warnings |-> Append(res.warnings, [prefix |-> warning, reason |-> outcome[2]])]
    ELSE [is_grounded |-> TRUE,
          checks |-> Append(res.checks, [check |-> name, passed |-> TRUE]),
          warnings |-> res.warnings]

RecordCheck(res, name, warning, outcome) ==
    IF ~outcome[1]
    THEN [is_grounded |-> FALSE,
          checks |-> Append(res.checks, [check |-> name, passed |-> FALSE, reason |-> outcome[2]]),
          warnings |-> Append(res.warnings, [prefix |-> warning, reason |-> outcome[2]])]
    ELSE [is_grounded |-> res.is_grounded,
          checks |-> Append(res.checks, [check |-> name, passed |-> TRUE]),
          warnings |-> res.warnings]

\* The words the checked texts are made of, and how many of them a response
\* and a context have.
Pieces ==
    {<<"5", ".", "5", "%">>,
     <<"5", ".", "5">>,
     <<"1", "0">>,
     <<"1", "0", ".", "0">>,
     <<"f", "e", "e">>,
     <<"A", "P", "R">>,
     <<"J", "a", "n", " ", "5", ",", " ", "2", "0", "2", "4">>,
     <<"j", "a", "n", " ", "5", ",", " ", "2", "0", "2", "4">>,
     <<"1", "/", "5", "/", "2", "0", "2", "4">>,
     <<" ">>}
MaxResponsePieces == 2
MaxContextPieces == 1

RECURSIVE TextsUpTo(_)
TextsUpTo(n) ==
    IF n = 0 THEN {<<>>}
    ELSE TextsUpTo(n - 1) \cup {t \o p : t \in TextsUpTo(n - 1), p \in Pieces}

InitGround ==
    /\ gpc = "factual"
    /\ response \in TextsUpTo(MaxResponsePieces)
    /\ context \in TextsUpTo(MaxContextPieces)
    /\ results = InitialResults

IdleGround ==
    /\ gpc = "idle"
    /\ response = <<>>
    /\ context = <<>>
    /\ results = InitialResults

\* check_grounding, lines 110-124.
GroundFactual ==
    /\ gpc = "factual"
    /\ results' = RecordCheck(results, "factual_consistency", "Factual inconsistency detected",
                              check_factual_consistency(response, context))
    /\ gpc' = "temporal"
    /\ UNCHANGED <<response, context>>
    /\ UNCHANGED <<deployVars, validateVars, createVars, versionVars, envelopeVars,
                   parallelVars>>

\* check_grounding, lines 126-142.
GroundTemporal ==
    /\ gpc = "temporal"
    /\ results' = RecordCheck(results, "temporal_consistency", "Temporal inconsistency detected",
                              check_temporal_consistency(response, context))
    /\ gpc' = "returned"
    /\ UNCHANGED <<response, context>>
    /\ UNCHANGED <<deployVars, validateVars, createVars, versionVars, envelopeVars,
                   parallelVars>>

NextGround ==
    \/ GroundFactual
    \/ GroundTemporal

(***************************************************************************)
(*     create_guardrail.py: _encrypt_sensitive_data and _decrypt_data      *)
(***************************************************************************)

\* A text (a Python str, the plaintext) is a sequence of lexical tokens:
\* punctuation, a JSON literal (a number, true, false, null), a bare word
\* that is no JSON, or a quoted string.  White space between tokens is left
\* out.
Tok(k, v) == [k |-> k, v |-> v]
Punct(c) == Tok("punct", c)

\* The str with the content v, v being a number, a JSON word or a word.
AtomText(v) ==
    IF v = "" THEN <<>>
    ELSE IF v \in {"true", "false", "null", "1", "123"} THEN <<Tok("lit", v)>>
    ELSE <<Tok("word", v)>>

\* Python values.
PyStr(s) == [t |-> "str", v |-> s]
PyInt(digits) == [t |-> "int", v |-> <<Tok("lit", digits)>>]
PyBool(b) == [t |-> "bool", v |-> <<Tok("word", b)>>]
PyNone == [t |-> "NoneType", v |-> <<>>]
PyList(items) == [t |-> "list", v |-> items]
PyDict(pairs) == [t |-> "dict", v |-> pairs]
Pair(key, value) == [key |-> key, value |-> value]
Unset == [t |-> "unset", v |-> <<>>]

\* ==, on Python values: dictionaries are equal when they hold the same
\* pairs, whatever the order.
PyEqual(a, b) ==
    /\ a.t = b.t
    /\ IF a.t = "dict"
       THEN {a.v[i] : i \in DOMAIN a.v} = {b.v[i] : i \in DOMAIN b.v}
       ELSE a.v = b.v

\* json.dumps of a value that is no container; of a dictionary's key (a key
\* that is an int is written as a string).
DumpsScalar(x) ==
    CASE x.t = "str" -> <<Tok("quoted", IF x.v = <<>> THEN "" ELSE x.v[1].v)>>
      [] x.t = "int" -> x.v
      [] x.t = "bool" -> <<Tok("lit", IF x = PyBool("True") THEN "true" ELSE "false")>>
      [] x.t = "NoneType" -> <<Tok("lit", "null")>>

DumpsKey(x) ==
    CASE x.t = "str" -> DumpsScalar(x)
      [] x.t = "int" -> <<Tok("quoted", x.v[1].v)>>

RECURSIVE DumpsItems(_)
DumpsItems(items) ==
    IF items = <<>> THEN <<>>
    ELSE DumpsScalar(Head(items))
         \o (IF Len(items) > 1 THEN <<Punct(",")>> \o DumpsItems(Tail(items)) ELSE <<>>)

RECURSIVE DumpsPairs(_)
DumpsPairs(pairs) ==
    IF pairs = <<>> THEN <<>>
    ELSE DumpsKey(Head(pairs).key) \o <<Punct(":")>> \o DumpsScalar(Head(pairs).value)
         \o (IF Len(pairs) > 1 THEN <<Punct(",")>> \o DumpsPairs(Tail(pairs)) ELSE <<>>)

\* json.dumps(data, ensure_ascii=False), line 191.
Dumps(x) ==
    CASE x.t = "list" -> <<Punct("[")>> \o DumpsItems(x.v) \o <<Punct("]")>>
      [] x.t = "dict" -> <<Punct("{")>> \o DumpsPairs(x.v) \o <<Punct("}")>>
      [] OTHER -> DumpsScalar(x)

\* json.loads, line 232, on the texts of the model (containers are not
\* nested): the value, or JSONDecodeError.
IsScalarTok(tok) == tok.k \in {"quoted", "lit"}

LoadsScalar(tok) ==
    IF tok.k = "quoted" THEN PyStr(AtomText(tok.v))
    ELSE IF tok.v = "true" THEN PyBool("True")
    ELSE IF tok.v = "false" THEN PyBool("False")
    ELSE IF tok.v = "null" THEN PyNone
    ELSE PyInt(tok.v)

IsItems(s) ==
    /\ Len(s) % 2 = 1
    /\ \A i \in DOMAIN s : IF i % 2 = 1 THEN IsScalarTok(s[i]) ELSE s[i] = Punct(",")

IsPairs(s) ==
    /\ Len(s) % 4 = 3
    /\ \A i \in DOMAIN s :
          CASE i % 4 = 1 -> s[i].k = "quoted"
            [] i % 4 = 2 -> s[i] = Punct(":")
            [] i % 4 = 3 -> IsScalarTok(s[i])
            [] OTHER -> s[i] = Punct(",")

LoadsItems(s) == [i \in 1..((Len(s) + 1) \div 2) |-> LoadsScalar(s[2 * i - 1])]

\* The pairs of a JSON object; of two pairs with the same key the later one
\* stays.
RECURSIVE LoadsPairs(_)
LoadsPairs(s) ==
    IF s = <<>> THEN <<>>
    ELSE LET rest == IF Len(s) > 3 THEN LoadsPairs(SubSeq(s, 5, Len(s))) ELSE <<>>
             key == LoadsScalar(s[1])
         IN  IF \E i \in DOMAIN rest : rest[i].key = key THEN rest
             ELSE <<Pair(key, LoadsScalar(s[3]))>> \o rest

JSONDecodeError == [t |-> "JSONDecodeError", v |-> <<>>]

Loads(s) ==
    LET inner == IF Len(s) >= 2 THEN SubSeq(s, 2, Len(s) - 1) ELSE <<>>
    IN  IF Len(s) = 1 /\ IsScalarTok(s[1]) THEN LoadsScalar(s[1])
        ELSE IF Len(s) >= 2 /\ s[1] = Punct("[") /\ s[Len(s)] = Punct("]")
                /\ (inner = <<>> \/ IsItems(inner))
             THEN PyList(IF inner = <<>> THEN <<>> ELSE LoadsItems(inner))
        ELSE IF Len(s) >= 2 /\ s[1] = Punct("{") /\ s[Len(s)] = Punct("}")
                /\ (inner = <<>> \/ IsPairs(inner))
             THEN PyDict(LoadsPairs(inner))
        ELSE JSONDecodeError

\* Lines 190-193: data_str.
DataStr(data) ==
    IF data.t \in {"dict", "list"} THEN Dumps(data) ELSE data.v

\* Lines 231-234: the value _decrypt_data returns for a decrypted text.
Parsed(plaintext) ==
    IF Loads(plaintext).t = "JSONDecodeError" THEN PyStr(plaintext) ELSE Loads(plaintext)

\* kms_manager.encrypt_data, lines 134-141: the text is encoded as UTF-8,
\* the key service binds the bytes to the encryption context, and the
\* ciphertext is returned in hexadecimal.
CiphertextBlob(plaintext, ctx) == [hex |-> [plaintext |-> [utf8 |-> plaintext], context |-> ctx]]

\* kms_manager.decrypt_data, lines 162-168: the hexadecimal is turned into
\* bytes again; the key service decrypts them only under the context they
\* were bound to; the plaintext bytes are decoded.
Decryptable(ciphertext_blob, ctx) == ciphertext_blob.hex.context = ctx
Plaintext(ciphertext_blob) == ciphertext_blob.hex.plaintext.utf8

NoEnvelope == [encrypted |-> FALSE, data |-> CiphertextBlob(<<>>, "none"),
               key_id |-> "none", algorithm |-> "none"]

\* self.encryption_context, lines 88-91: it differs by its 'environment'.
EncryptionContexts == {"development", "production"}

\* Exceptions: their type, the exception they were raised from (raise ...
\* from), and the exception that was being handled when they were raised.
Exception(type, cause, ctx) == [type |-> type, cause |-> cause, context |-> ctx]
KeyServiceErrors == {"InvalidCiphertextException", "DisabledException"}

\* Lines 209-211 and 235-237: the handler of an exception e evaluates
\* logger.error(...); create_guardrail.py defines no name logger, so the
\* handler raises NameError while e is being handled.
HandlerRaises(e) == Exception("NameError", "None", e)

\* The data given to _encrypt_sensitive_data: strings, lists, dictionaries.
Payloads ==
    <<PyStr(<<>>), PyStr(AtomText("hello")), PyStr(AtomText("123")), PyStr(AtomText("true")), PyStr(AtomText("null")),
     PyStr(<<Tok("quoted", "a")>>), PyStr(<<Punct("[")>>),
     PyStr(<<Punct("{"), Tok("quoted", "a"), Punct(":"), Tok("lit", "1"), Punct("}")>>),
     PyList(<<>>), PyList(<<PyInt("1")>>), PyList(<<PyStr(AtomText("a")), PyStr(AtomText("123")), PyNone>>),
     PyDict(<<>>), PyDict(<<Pair(PyStr(AtomText("a")), PyInt("1"))>>),
     PyDict(<<Pair(PyStr(AtomText("a")), PyStr(AtomText("123"))), Pair(PyStr(AtomText("hello")), PyBool("True"))>>),
     PyDict(<<Pair(PyInt("1"), PyStr(AtomText("a")))>>)>>

InitEnvelope ==
    /\ epc = "seal"
    /\ \E i \in DOMAIN Payloads : payload = Payloads[i]
    /\ seal_context \in EncryptionContexts
    /\ open_context \in EncryptionContexts
    /\ envelope = NoEnvelope
    /\ opened = Unset
    /\ raised = Exception("None", "None", "None")

IdleEnvelope ==
    /\ epc = "idle"
    /\ payload = Unset
    /\ seal_context = "none"
    /\ open_context = "none"
    /\ envelope = NoEnvelope
    /\ opened = Unset
    /\ raised = Exception("None", "None", "None")

\* _encrypt_sensitive_data, lines 188-211, with kms_manager.encrypt_data,
\* lines 133-148.
Seal ==
    /\ epc = "seal"
    /\ \/ /\ envelope' = [encrypted |-> TRUE,
                          data |-> CiphertextBlob(DataStr(payload), seal_context),
                          key_id |-> "KeyId",
                          algorithm |-> "SYMMETRIC_DEFAULT"]
          /\ epc' = "open"
          /\ UNCHANGED raised
       \/ /\ raised' = HandlerRaises("DisabledException")
          /\ epc' = "seal_failed"
          /\ UNCHANGED envelope
    /\ UNCHANGED <<payload, seal_context, open_context, opened>>
    /\ UNCHANGED <<deployVars, validateVars, createVars, versionVars, groundVars,
                   parallelVars>>

\* _decrypt_data, lines 223-237, with kms_manager.decrypt_data, lines
\* 161-175.
Open ==
    /\ epc = "open"
    /\ \/ /\ Decryptable(envelope.data, open_context)
          /\ opened' = Parsed(Plaintext(envelope.data))
          /\ epc' = "opened"
          /\ UNCHANGED raised
       \/ /\ \E e \in KeyServiceErrors :
                /\ e = "InvalidCiphertextException" => ~Decryptable(envelope.data, open_context)
                /\ raised' = HandlerRaises(e)
          /\ epc' = "open_failed"
          /\ UNCHANGED opened
    /\ UNCHANGED <<payload, seal_context, open_context, envelope>>
    /\ UNCHANGED <<deployVars, validateVars, createVars, versionVars, groundVars,
                   parallelVars>>

NextEnvelope ==
    \/ Seal
    \/ Open

(***************************************************************************)
(*   create_guardrail.py: runs of create_banking_guardrail side by side    *)
(***************************************************************************)

\* The processes running create_banking_guardrail in one working directory.
Runs == {1, 2}

\* Last reading of the wall clock, in half seconds.
MaxClock == 2

\* The rules the policy getters return (lines 239-539), each group in the
\* order of its literal: topics by name, entities by type, regexes by name,
\* grounding filters by type and threshold, content filters by type, words by
\* text.  Every call builds the literal anew.
Catalog ==
    [topicsConfig |-> <<"Financial Fraud", "Personal Information", "Financial Advice",
                        "Harmful Content", "Sensitive Operations">>,
     piiEntitiesConfig |-> <<"US_SOCIAL_SECURITY_NUMBER", "CREDIT_DEBIT_CARD_NUMBER",
                             "US_BANK_ACCOUNT_NUMBER", "US_BANK_ROUTING_NUMBER",
                             "US_INDIVIDUAL_TAX_IDENTIFICATION_NUMBER">>,
     regexesConfig |-> <<"Credit Card Number", "SSN", "Bank Account Number">>,
     groundingFilters |-> <<<<"GROUNDING", "0.8">>, <<"RELEVANCE", "0.7">>>>,
     filtersConfig |-> <<"HATE", "INSULTS", "PROMPT_ATTACK", "SEXUAL", "VIOLENCE">>,
     wordsConfig |-> <<"password", "passcode", "security code", "one-time password",
                       "MFA code", "wire transfer", "SWIFT code", "IBAN",
                       "account balance", "overdraft", "account holder", "signature",
                       "government ID", "driver's license", "passport number",
                       "credit card number", "CVV", "expiration date",
                       "social security number", "SSN", "routing number",
                       "account number", "PIN", "personal identification number">>]

\* guardrail_config of lines 660-680: the name, the fixed texts and tags, and
\* the five policy groups (automated reasoning is None, so it is left out).
GuardrailConfig(name) ==
    [name |-> name,
     description |-> "Comprehensive guardrail for banking voice bot with enhanced security and compliance",
     blockedInputMessaging |-> "I'm sorry, but I can't process that request.",
     blockedOutputsMessaging |-> "I'm sorry, but I can't provide that information through this channel.",
     contentPolicyConfig |-> Catalog.filtersConfig,
     topicPolicyConfig |-> Catalog.topicsConfig,
     wordPolicyConfig |-> Catalog.wordsConfig,
     sensitiveInformationPolicyConfig |-> <<Catalog.piiEntitiesConfig, Catalog.regexesConfig>>,
     contextualGroundingPolicyConfig |-> Catalog.groundingFilters,
     tags |-> <<"environment", "department", "compliance", "managed_by">>]

\* Error codes with which the remote create_guardrail call is refused.
CreateErrors == {"ValidationException", "ConflictException", "ThrottlingException"}

\* The locals of a run that has not started.
NewRun(name, key) ==
    [pc |-> "start", guardrail_name |-> name, name |-> GivenName("None"),
     guardrail_config |-> <<>>, kms_key_id |-> key, error |-> "none",
     response |-> NoResponse, result |-> "unset", exit |-> "running"]

\* return None after the handlers at lines 768-780 and 782-784.
RunHandled(r, why, err) ==
    [r EXCEPT !.pc = "done", !.result = "None", !.exit = why, !.error = err]

InitParallel ==
    /\ now = 0
    /\ run \in [Runs -> {NewRun(name, key) : name \in {"None", "MyGuardrail"},
                                             key \in {"None", "arn:key"}}]
    /\ details = NoRecord

IdleParallel ==
    /\ now = 0
    /\ run = [r \in Runs |-> [NewRun("None", "None") EXCEPT !.pc = "idle"]]
    /\ details = NoRecord

\* The wall clock advances.
Tick ==
    /\ now < MaxClock
    /\ \E r \in Runs : run[r].pc \notin {"done", "idle"}
    /\ now' = now + 1
    /\ UNCHANGED <<run, details>>
    /\ UNCHANGED <<deployVars, validateVars, createVars, versionVars, groundVars,
                   envelopeVars>>

\* Lines 644-697 of run r: the name, guardrail_config, and the key reference.
RunCompile(r) ==
    /\ run[r].pc = "start"
    /\ LET name == NameInUse(run[r].guardrail_name, now)
           compiled == [run[r] EXCEPT !.name = name,
                                      !.guardrail_config = <<GuardrailConfig(name)>>]
       IN  run' = [run EXCEPT ![r] =
                      IF compiled.kms_key_id \in {"None", ""}
                      THEN RunHandled(compiled, "key_missing", "ValueError")
                      ELSE [compiled EXCEPT !.pc = "describe"]]
    /\ UNCHANGED <<now, details>>
    /\ UNCHANGED <<deployVars, validateVars, createVars, versionVars, groundVars,
                   envelopeVars>>

\* Lines 699-734 of run r: kms.describe_key, the state check, the validation.
RunDescribeKey(r) ==
    /\ run[r].pc = "describe"
    /\ \E state \in KeyStates \cup {"raised"} :
         run' = [run EXCEPT ![r] =
                    IF state # "raised" /\ KeyUsable(state) /\ Validate(CompiledConfig).is_valid
                    THEN [run[r] EXCEPT !.pc = "create"]
                    ELSE RunHandled(run[r], "key_unavailable", "ValueError")]
    /\ UNCHANGED <<now, details>>
    /\ UNCHANGED <<deployVars, validateVars, createVars, versionVars, groundVars,
                   envelopeVars>>

\* Lines 742-746 and 763-780 of run r: client.create_guardrail; the remote
\* service gives every guardrail an identifier of its own.
RunCreateGuardrail(r) ==
    /\ run[r].pc = "create"
    /\ \/ \E code \in CreateErrors :
            run' = [run EXCEPT ![r] = RunHandled(run[r], "create_failed", code)]
       \/ run' = [run EXCEPT ![r] = RunHandled(run[r], "no_id", "none")]
       \/ \E id \in GuardrailIds, arn \in GuardrailArns :
            /\ \A o \in Runs : run[o].response.guardrailId # id
            /\ run' = [run EXCEPT ![r].pc = "write",
                                  ![r].response = [guardrailId |-> id, guardrailArn |-> arn]]
    /\ UNCHANGED <<now, details>>
    /\ UNCHANGED <<deployVars, validateVars, createVars, versionVars, groundVars,
                   envelopeVars>>

\* Lines 752-762 of run r: open('guardrail_details.json', 'w'), json.dump,
\* return guardrail_id; an error of either is caught at line 768.
RunWriteRecord(r) ==
    /\ run[r].pc = "write"
    /\ \/ /\ details' = WrittenRecord(run[r].response.guardrailId, run[r].name,
                                      run[r].response.guardrailArn)
          /\ run' = [run EXCEPT ![r].pc = "done", ![r].exit = "created",
                                ![r].result = run[r].response.guardrailId]
       \/ /\ details' \in {details, TruncatedRecord}
          /\ run' = [run EXCEPT ![r] = RunHandled(run[r], "create_failed", "OSError")]
    /\ UNCHANGED now
    /\ UNCHANGED <<deployVars, validateVars, createVars, versionVars, groundVars,
                   envelopeVars>>

NextParallel ==
    \/ Tick
    \/ \E r \in Runs : RunCompile(r)
    \/ \E r \in Runs : RunDescribeKey(r)
    \/ \E r \in Runs : RunCreateGuardrail(r)
    \/ \E r \in Runs : RunWriteRecord(r)

(***************************************************************************)
(*                           Specifications                                *)
(***************************************************************************)

Init ==
    InitDeploy /\ IdleValidate /\ IdleCreate
    /\ IdleVersion /\ IdleGround /\ IdleEnvelope /\ IdleParallel
Next == NextDeploy
Spec == Init /\ [][Next]_vars

InitV ==
    IdleDeploy /\ InitValidate /\ IdleCreate
    /\ IdleVersion /\ IdleGround /\ IdleEnvelope /\ IdleParallel
SpecValidate == InitV /\ [][NextValidate]_vars

InitC ==
    IdleDeploy /\ IdleValidate /\ InitCreate
    /\ IdleVersion /\ IdleGround /\ IdleEnvelope /\ IdleParallel
SpecCreate == InitC /\ [][NextCreate]_vars

InitX ==
    IdleDeploy /\ IdleValidate /\ IdleCreate
    /\ InitVersion /\ IdleGround /\ IdleEnvelope /\ IdleParallel
SpecVersion == InitX /\ [][NextVersion]_vars

InitG ==
    IdleDeploy /\ IdleValidate /\ IdleCreate
    /\ IdleVersion /\ InitGround /\ IdleEnvelope /\ IdleParallel
SpecGround == InitG /\ [][NextGround]_vars

InitE ==
    IdleDeploy /\ IdleValidate /\ IdleCreate
    /\ IdleVersion /\ IdleGround /\ InitEnvelope /\ IdleParallel
SpecEnvelope == InitE /\ [][NextEnvelope]_vars

InitP ==
    IdleDeploy /\ IdleValidate /\ IdleCreate
    /\ IdleVersion /\ IdleGround /\ IdleEnvelope /\ InitParallel
SpecParallel == InitP /\ [][NextParallel]_vars

(***************************************************************************)
(*                               Claims                                    *)
(***************************************************************************)

\* The terminal statuses of the poll loop, and the outcome each stands for.
TerminalStatuses == {"ACTIVE", "READY", "FAILED", "ERROR"}
SuccessStatuses == {"ACTIVE", "READY"}
TerminalOutcome(status) == IF status \in SuccessStatuses THEN "True" ELSE "False"

\* The status queries sent by the poll loop: the get_guardrail requests that
\* follow the update_guardrail request.
PollQueries ==
    Cardinality({i \in DOMAIN requests :
                    /\ requests[i].op = "get_guardrail"
                    /\ \E j \in 1..(i - 1) : requests[j].op = "update_guardrail"})

\* Bounds a caller may ask for: the spec's example (5) and the default (10).
RequestedMaxAttempts == {5, 10}

\* C1: for every caller-supplied maxAttempts N the poll loop issues at most N
\* status queries, and when it runs out of attempts it has issued exactly N.
C1_PollsWithinRequestedMaxAttempts ==
    \A N \in RequestedMaxAttempts :
        /\ PollQueries <= N
        /\ exit = "timeout" => PollQueries = N

\* C2: when a terminal status is observed, it is the last status observed,
\* it was returned by the k-th status query where k is its position, the loop
\* has returned that status' outcome, and (this holding in every reachable
\* state) no status query follows it.
C2_ReturnsAtFirstTerminal ==
    \A k \in DOMAIN observed :
        observed[k] \in TerminalStatuses =>
            /\ k = Len(observed)
            /\ attempt = k
            /\ PollQueries = k
            /\ pc = "done"
            /\ result = TerminalOutcome(observed[k])

C2_Witness ==
    /\ pc = "done"
    /\ observed = <<"CREATING", "CREATING", "ACTIVE">>
    /\ PollQueries = 3
    /\ result = "True"

\* C3: success is reported exactly when the last observed status is ACTIVE or
\* READY; FAILED or ERROR ends the loop with failure; after any other status
\* (a missing one too) the loop goes on: it is still polling, or it ended
\* because the attempts ran out, the next query raised, or it was interrupted.
C3_SuccessIffActiveOrReady ==
    /\ result = "True" <=> (observed # <<>> /\ Last(observed) \in SuccessStatuses)
    /\ (observed # <<>> /\ Last(observed) \in {"FAILED", "ERROR"}) =>
          (pc = "done" /\ result = "False" /\ exit = "failed")
    /\ (observed # <<>> /\ Last(observed) \notin TerminalStatuses) =>
          \/ pc = "poll" /\ attempt < max_attempts
          \/ exit = "timeout" /\ attempt = max_attempts
          \/ exit = "exception" /\ attempt = Len(observed) + 1
          \/ exit = "interrupted"

C3_Witness ==
    /\ pc = "done"
    /\ observed = <<"MISSING", "READY">>
    /\ result = "True"

\* C4: the value returned when the attempts run out differs from the value
\* returned when FAILED is observed.
C4_TimeoutDistinctFromFailed ==
    exit = "timeout" => result # ReturnOnFailedStatus

\* C5: once the caller has asked for cancellation, the poll loop issues no
\* further status query.
C5_NoStatusQueryAfterCancel ==
    [][(cancelRequested /\ pc = "poll") => requests' = requests]_vars

\* C10: every mutating request sent to the policy service carries a request
\* token, and no two requests carry the same token.
MutatingOps == {"create_guardrail", "create_guardrail_version", "update_guardrail"}

C10_MutatingRequestsCarryFreshToken ==
    \A i \in DOMAIN requests :
        requests[i].op \in MutatingOps =>
            /\ requests[i].token # "none"
            /\ \A j \in DOMAIN requests : j # i => requests[j].token # requests[i].token

\* The PROMPT_ATTACK rule of a document has output filtering disabled and an
\* output strength other than NONE.
PromptAttackViolation(cfg) ==
    /\ cfg.promptAttack.present
    /\ ~cfg.promptAttack.outputEnabled
    /\ cfg.promptAttack.outputStrength # "NONE"

\* A document that has its name, description and messaging strings, and
\* whose groups, where present, are mappings: what a compilation yields, with
\* groups possibly left out.
CompiledShape(cfg) ==
    /\ \A f \in StringFields : cfg.kind[f] = "str"
    /\ \A g \in GroupFields : cfg.kind[g] \in {"absent", "dict"}

\* C6: for every such document, validate returns Invalid if and only if a
\* required group (content, word, topic) is absent or the PROMPT_ATTACK rule
\* has output filtering disabled and an output strength other than NONE.
C6_InvalidIffGroupAbsentOrPromptAttack ==
    (vpc = "validated" /\ CompiledShape(config)) =>
        (~validation.is_valid <=>
            \/ \E g \in GroupFields : config.kind[g] = "absent"
            \/ PromptAttackViolation(config))

\* C7: an Invalid result for a document that lacks required fields names
\* every one of them; a group that is present but no mapping makes the
\* result Invalid as well.
C7_AllMissingFieldsReported ==
    vpc = "validated" =>
        LET absent == {f \in StringFields \cup GroupFields : config.kind[f] = "absent"}
            named == {validation.missing[i] : i \in DOMAIN validation.missing}
        IN  /\ absent # {} =>
                  /\ ~validation.is_valid
                  /\ validation.error = "Missing required fields"
                  /\ named = absent
            /\ (\E g \in GroupFields : config.kind[g] = "list") => ~validation.is_valid

C7_Witness ==
    /\ vpc = "validated"
    /\ validation.missing = <<"name", "wordPolicyConfig", "topicPolicyConfig">>
    /\ config.kind["contentPolicyConfig"] = "list"

\* C8: no network call is made before the validation of the document has
\* completed (and found it valid).
C8_ValidationBeforeAnyNetworkCall ==
    calls # <<>> => is_valid = "True"

\* C9: when the key reference is missing, describe_key fails, or the key is
\* not Enabled, create_guardrail is never called and the run returns None.
KeyProblem ==
    \/ cpc # "start" /\ kms_key_id \in {"None", ""}
    \/ key_info = "raised"
    \/ key_info \in KeyStates \ {"Enabled"}

C9_KeyUnavailableNeverCreates ==
    KeyProblem =>
        /\ \A i \in DOMAIN calls : calls[i].op # "create_guardrail"
        /\ cpc = "done"
        /\ cresult = "None"

C9_Witness ==
    /\ cpc = "done"
    /\ key_info = "Disabled"
    /\ calls = <<Call("kms", "describe_key")>>
    /\ cresult = "None"

(***************************************************************************)
(*        Claims about create_guardrail_version_from_config                *)
(***************************************************************************)

UpdateSent == \E i \in DOMAIN xrequests : xrequests[i].op = "update_guardrail"

\* C11: activation changes only the version pointer: in the update request
\* every policy field (description, messaging strings, content, word,
\* topic, sensitive-information and grounding groups, key reference) equals
\* the value read from the current remote configuration.  Stated for the
\* reads that carry both messaging strings.
C11_UpdateRequestCarriesEveryField ==
    (UpdateSent /\ \A f \in MessagingFields : current_config[f] # "absent")
        => \A f \in ConfigFields : update_params[f] = current_config[f]

\* C12: when another party modified the remote guardrail between the read and
\* the update, and the service reports the conflict, the run does not return
\* a success or a generic non-error result.
C12_ConflictIsNotANonErrorResult ==
    (xpc = "done" /\ modified /\ xerror = "ConflictException"
        /\ Last(xrequests).op = "update_guardrail")
        => xresult.returned # "dict"

\* C13: within one run each mutating remote operation is issued at most once,
\* and after a mutating call has failed the run makes no second attempt and
\* returns a failure outcome.
MutatingVersionOps == {"create_guardrail_version", "update_guardrail"}

C13_MutatingOnceAndFailureReturned ==
    /\ \A i, j \in DOMAIN xrequests :
          (xrequests[i].op \in MutatingVersionOps /\ xrequests[i].op = xrequests[j].op)
              => i = j
    /\ (xpc = "done" /\ xerror # "none" /\ Last(xrequests).op \in MutatingVersionOps)
          => xresult = ReturnedNone

(***************************************************************************)
(*                     Claims about check_grounding                        *)
(***************************************************************************)

FactualPassed == results.checks[1].passed
TemporalPassed == results.checks[2].passed
NumbersReason == Reason("Response contains numbers not present in context", <<>>)

TokensCovered ==
    /\ FindNumbers(response) \subseteq FindNumbers(context)
    /\ FindDates(response) \subseteq FindDates(context)

\* Every listed term that occurs in the response, whatever the letter case
\* of either, occurs in the context.
TermsCovered ==
    LET lower_response == Lower(response)
        lower_context == Lower(context)
    IN  \A i \in DOMAIN financial_terms :
            Contains(lower_response, Lower(financial_terms[i]))
                => Contains(lower_context, Lower(financial_terms[i]))

\* C14 as stated: if every numeric token and every date token of the response
\* also occurs among the tokens of the context, the factual check passed,
\* the temporal check passed and the response is grounded.
C14_TokensCoveredImpliesGrounded ==
    gpc = "returned" =>
        \/ FactualPassed /\ TemporalPassed /\ results.is_grounded
        \/ ~TokensCovered

\* C14, amended: if every numeric token and every date token of the response
\* also occurs among the tokens of the context, and every listed financial
\* term the response contains (in any letter case) is also contained in the
\* context (in any letter case), then both checks passed and the response
\* is grounded.
C14_TokensAndTermsCoveredImpliesGrounded ==
    gpc = "returned" =>
        \/ FactualPassed /\ TemporalPassed /\ results.is_grounded
        \/ ~TokensCovered
        \/ ~TermsCovered

C14_Witness ==
    /\ gpc = "returned"
    /\ FindNumbers(response) # {}
    /\ FindDates(response) # {}
    /\ context # response
    /\ TokensCovered /\ TermsCovered
    /\ results.is_grounded

\* C15: a response that contains 5.5% fails the factual check, with the
\* reason "Response contains numbers not present in context", against any
\* context that does not contain 5.5% (the percent sign is part of the
\* numeric token).
C15_PercentTokenNotInContextFails ==
    (gpc = "returned" /\ Contains(response, <<"5", ".", "5", "%">>)
        /\ ~Contains(context, <<"5", ".", "5", "%">>))
        => (~FactualPassed /\ results.checks[1].reason = NumbersReason)

\* C16: for every term of the fixed list, if the response contains the term
\* in any letter case and the context does not contain it in any letter
\* case, the factual check fails.
C16_IntroducedTermFails ==
    (gpc = "returned" /\ ~TermsCovered) => ~FactualPassed

\* C17: the temporal check fails exactly when the set of date-like substrings
\* of the response is not a subset of that of the context, the substrings
\* being compared as written (no format or letter-case normalisation).
C17_TemporalFailsIffDatesNotSubset ==
    gpc = "returned" =>
        (~TemporalPassed <=> ~(FindDates(response) \subseteq FindDates(context)))

C17_Witness ==
    /\ gpc = "returned"
    /\ response = <<"J", "a", "n", " ", "5", ",", " ", "2", "0", "2", "4">>
    /\ context = <<"j", "a", "n", " ", "5", ",", " ", "2", "0", "2", "4">>
    /\ ~TemporalPassed
    /\ results.checks[2].reason = Reason("Response introduces dates not present in context", <<>>)

\* C18: the grounded flag is true exactly when both checks passed, and each
\* check is evaluated and recorded whatever the result of the other.
C18_GroundedIffBothPassed ==
    gpc = "returned" =>
        /\ Len(results.checks) = 2
        /\ results.checks[1].check = "factual_consistency"
        /\ results.checks[2].check = "temporal_consistency"
        /\ results.is_grounded <=> (FactualPassed /\ TemporalPassed)

C18_Witness ==
    /\ gpc = "returned"
    /\ ~FactualPassed
    /\ TemporalPassed
    /\ Len(results.checks) = 2
    /\ ~results.is_grounded

(***************************************************************************)
(*         Claims about _encrypt_sensitive_data and _decrypt_data          *)
(***************************************************************************)

\* C19: for every payload (mapping, sequence or scalar string) sealed and
\* then opened under the same encryption context, open returns a value equal
\* to the payload.
C19_RoundTripReturnsPayload ==
    (epc = "opened" /\ seal_context = open_context) => PyEqual(opened, payload)

\* C20: when the key service refuses an encrypt or decrypt request, seal /
\* open fail with an error that wraps the underlying key-service error (it
\* is that error, or is raised from it), and no envelope or plaintext is
\* returned.
RaisedWrapsKeyServiceError ==
    raised.type \in KeyServiceErrors \/ raised.cause \in KeyServiceErrors

C20_RefusalRaisesWrappedKeyServiceError ==
    /\ epc = "seal_failed" => (RaisedWrapsKeyServiceError /\ envelope = NoEnvelope)
    /\ epc = "open_failed" => (RaisedWrapsKeyServiceError /\ opened = Unset)

(***************************************************************************)
(*      Claims about create_banking_guardrail and its local record         *)
(***************************************************************************)

\* C21: two compilations with the same overrides, at any two times and in
\* any order with other compilations, yield identical policy documents.
C21_SameOverridesSameDocument ==
    \A a, b \in Runs :
        (/\ run[a].guardrail_config # <<>>
         /\ run[b].guardrail_config # <<>>
         /\ run[a].guardrail_name = run[b].guardrail_name)
        => run[a].guardrail_config = run[b].guardrail_config

\* C22: the local record is written only after the remote create has
\* returned an identifier, and whenever the remote create returned an
\* identifier, create returns that identifier to its caller whether or not
\* writing the local record succeeds.
C22_CreatedIdIsReturned ==
    /\ record.state = "truncated" => created.guardrailId # "None"
    /\ record.guardrail_id \in GuardrailIds => record.guardrail_id = created.guardrailId
    /\ (cpc = "done" /\ created.guardrailId # "None") => cresult = created.guardrailId

\* C23: two runs for different policy resources in parallel share no mutable
\* state: under every interleaving, the outcome and every locally persisted
\* value of one run are the same as when it runs alone, where the record a
\* run wrote stays in guardrail_details.json.
C23_PersistedValueAsWhenAlone ==
    \A r \in Runs :
        run[r].exit = "created"
        => details = WrittenRecord(run[r].response.guardrailId, run[r].name,
                                   run[r].response.guardrailArn)

\* The kind of a failed run, of the kinds the failure outcome is to tell apart.
FailureKind(r) ==
    IF r.exit \in {"key_missing", "key_unavailable"} THEN "KeyUnavailable"
    ELSE IF r.error = "ConflictException" THEN "Conflict"
    ELSE IF r.error = "ValidationException" THEN "RemoteRejected"
    ELSE "Unknown"

Failed(r) == r.pc = "done" /\ r.exit # "created"

\* C24: two failures of different kinds never return the same value to the
\* caller, and a failure caused by a remote error carries that error's code:
\* two failures with different remote error codes return different values.
C24_FailureValueTellsKind ==
    \A a, b \in Runs :
        (Failed(run[a]) /\ Failed(run[b]))
        => /\ FailureKind(run[a]) # FailureKind(run[b]) => run[a].result # run[b].result
           /\ (/\ run[a].error \in CreateErrors
               /\ run[b].error \in CreateErrors
               /\ run[a].error # run[b].error) => run[a].result # run[b].result

(***************************************************************************)
(*                 Claims about the verdict of check_grounding             *)
(***************************************************************************)

\* C25: an empty response passes both the factual and the temporal check
\* against every context, so its verdict is grounded with no warnings.
C25_EmptyResponseIsGrounded ==
    (gpc = "returned" /\ response = <<>>)
    => /\ FactualPassed
       /\ TemporalPassed
       /\ results.is_grounded
       /\ results.warnings = <<>>

C25_Witness ==
    /\ gpc = "returned"
    /\ response = <<>>
    /\ FindNumbers(context) # {}
    /\ FindDates(context) # {}
    /\ results.is_grounded

FailedChecks == {i \in DOMAIN results.checks : ~results.checks[i].passed}

\* C30: every verdict returned by check_grounding has exactly two check
\* entries, factual_consistency first and temporal_consistency second; an
\* entry carries a reason if and only if its passed flag is false; and the
\* number of warnings equals the number of failed checks.
C30_VerdictShape ==
    gpc = "returned"
    => /\ Len(results.checks) = 2
       /\ results.checks[1].check = "factual_consistency"
       /\ results.checks[2].check = "temporal_consistency"
       /\ \A i \in DOMAIN results.checks :
             ("reason" \in DOMAIN results.checks[i]) <=> ~results.checks[i].passed
       /\ Len(results.warnings) = Cardinality(FailedChecks)

C30_Witness ==
    /\ gpc = "returned"
    /\ results.checks[1].passed
    /\ ~results.checks[2].passed
    /\ Len(results.warnings) = 1

(***************************************************************************)
(*     Claims about the status reported after creating a version           *)
(***************************************************************************)

\* C26: create_guardrail_version_from_config reports status ACTIVE only if
\* the status query made after the update returned status ACTIVE and a
\* version equal to the newly created version; if the update or any
\* activation step raises, it still returns the created version id with
\* status DRAFT; if the initial get or the version creation fails, it returns
\* no result and never issues the update.
C26_ActiveOnlyForCreatedVersion ==
    /\ xresult.status = "ACTIVE"
       => (xafter.status = "ACTIVE" /\ xafter.version = xversion)
    /\ (xerror # "none" /\ xversion # "unset")
       => xresult = VersionResult(xversion, "DRAFT")
    /\ (xerror # "none" /\ xversion = "unset")
       => (xresult = ReturnedNone /\ ~UpdateSent)

(***************************************************************************)
(*        Claims about version selection and failed status queries         *)
(***************************************************************************)

CreateVersionRequests ==
    Cardinality({i \in DOMAIN requests : requests[i].op = "create_guardrail_version"})

\* C27: in deploy_guardrail, when no version is given: if the resource has
\* versions, the one with the greatest creation time is chosen and no new
\* version is created; if it has none, exactly one new version is requested,
\* and if that request fails the operation returns failure without issuing
\* the update or any status poll.
C27_LatestChosenOrOneVersionRequested ==
    (version_arg = "None" /\ version_id # "unset")
    => IF guardrail_info.versions # <<>>
       THEN /\ \E i \in DOMAIN guardrail_info.versions :
                 /\ guardrail_info.versions[i].version = version_id
                 /\ \A j \in DOMAIN guardrail_info.versions :
                       guardrail_info.versions[j].createdAt
                           <= guardrail_info.versions[i].createdAt
            /\ CreateVersionRequests = 0
       ELSE /\ CreateVersionRequests <= 1
            /\ (version_id \in VersionIds \/ exit = "version_failed")
               => CreateVersionRequests = 1
            /\ exit = "version_failed"
               => /\ result = "False"
                  /\ \A i \in DOMAIN requests : requests[i].op # "update_guardrail"
                  /\ attempt = 0
                  /\ observed = <<>>

C27_Witness ==
    /\ version_arg = "None"
    /\ pc = "poll"
    /\ Len(guardrail_info.versions) = 2
    /\ guardrail_info.versions[1].createdAt < guardrail_info.versions[2].createdAt
    /\ version_id = guardrail_info.versions[2].version

\* C28: if a status query inside the poll loop fails, the deployment ends
\* with a failure result at that poll: no further status query is issued and
\* the failure is never reported as success.
C28_FailedStatusQueryEndsInFailure ==
    attempt > Len(observed)
    => /\ attempt = Len(observed) + 1
       /\ pc = "done"
       /\ result = "False"
       /\ Last(requests).op = "get_guardrail"

C28_Witness ==
    /\ attempt > Len(observed)
    /\ Len(observed) >= 2
    /\ exit = "exception"

\* C29: in the deploy entry point, when the initial status query returns
\* ACTIVE, or fails to return a status, the run ends without issuing any
\* mutating remote call (no version creation, no update).
C29_NoMutationWhenActiveOrUnknown ==
    exit \in {"not_found", "already_active"}
    => /\ \A i \in DOMAIN requests : requests[i].op \notin MutatingOps
       /\ requests = <<Request("get_guardrail", "none")>>
       /\ pc = "done"
       /\ result = "unset"

C29_Witness ==
    /\ exit = "already_active"
    /\ pc = "done"
    /\ Len(requests) = 1

=============================================================================
